---- MODULE Spec2Model ----
(***************************************************************************)
(* A model of stayradiated/web-audio: the stream Pumper (lib/Pumper, kept  *)
(* in src/lib/MediaElement.js lines 152-234) and the WebAudio playback     *)
(* controller (src/lib/WebAudio.js).                                       *)
(*                                                                         *)
(* JavaScript's null is the empty set, a present value x is {x}: a field   *)
(* that is "null or a number" is a set with at most one element.           *)
(***************************************************************************)
EXTENDS Integers, Sequences, FiniteSets, TLC

\* ------------------------------------------------------------------ bounds
MaxByte == 2
MaxChunkLen == 1
MaxChunks == 3
MaxTime == 3
MaxLoads == 1
MaxBodyChunks == 2
MaxStale == 1
MaxReloads == 2

\* ------------------------------------------------------- program constants
minLoadDuration == 1
throttleDecode == 500

VARIABLES
  \* test/Pumper.js: one Pumper on one reader, onRead a spy
  pumper,        \* the Pumper
  reader,        \* the reader handed to pump
  pumpRead,      \* the result of the pending reader.read(), null when none is pending
  pumpCalled,    \* pump(reader) was called
  fed,           \* the chunks the stream has handed out, in order
  onReadArgs,    \* the arguments of the onRead calls, in order (spy.args)
  cancelledAt    \* Len(onReadArgs) when cancel() was first called, null before

VARIABLES
  now,                 \* context.currentTime
  audioBuffer,         \* this.audioBuffer: null or a decoded buffer
  audioSource,         \* this.audioSource: null or a source
  startTime,           \* this.startTime
  pauseTime,           \* this.pauseTime
  loading,             \* this.loading
  paused,              \* this.paused
  buffering,           \* this.buffering
  _pumper,             \* this._pumper: null or the load whose Pumper it is
  _lastDecodePromise,  \* this._lastDecodePromise: null or a decode
  loads,               \* one record per loadSource call, in call order
  decodes,             \* one record per decodeAudioData call, in call order
  connected,           \* the number of sources connected to context.destination
  staleEnded,          \* 'ended' events queued for sources no longer current
  last                 \* the last handler run, and the calls it made

pvars == <<pumper, reader, pumpRead, pumpCalled, fed, onReadArgs, cancelledAt>>

cvars == <<now, audioBuffer, audioSource, startTime, pauseTime, loading, paused,
           buffering, _pumper, _lastDecodePromise, loads, decodes, connected,
           staleEnded, last>>

vars == <<pvars, cvars>>

\* ----------------------------------------------------------------- helpers
null == {}
Some(x) == {x}
Val(o) == CHOOSE x \in o : TRUE

Min(a, b) == IF a <= b THEN a ELSE b
Max(a, b) == IF a >= b THEN a ELSE b

Byte == 1..MaxByte
Chunks == UNION {[1..n -> Byte] : n \in 0..MaxChunkLen}

\* concatUint8Array: a new array of both lengths, buffer1 copied at 0 and
\* buffer2 at buffer1.byteLength.
concatUint8Array(buffer1, buffer2) ==
  [i \in 1..(Len(buffer1) + Len(buffer2)) |->
     IF i <= Len(buffer1) THEN buffer1[i] ELSE buffer2[i - Len(buffer1)]]

\* ------------------------------------------------------------------ Pumper
\* new Pumper()
NewPumper == [buffer |-> <<>>, cancelled |-> FALSE, done |-> FALSE]

\* Pumper._append
PumperAppend(p, chunk) ==
  [p EXCEPT !.buffer = concatUint8Array(p.buffer, chunk)]

\* Pumper.cancel
PumperCancel(p) == [p EXCEPT !.cancelled = TRUE]

\* A plausible slip in pump: the chunk replaces the buffer instead of being
\* appended to it.
PumpThenNoAppend(p, result) ==
  IF p.cancelled
    THEN [pumper |-> p, onRead |-> null, release |-> TRUE, again |-> FALSE]
  ELSE IF result.done
    THEN [pumper |-> [p EXCEPT !.done = TRUE],
          onRead |-> Some([value |-> null, done |-> TRUE]),
          release |-> FALSE, again |-> FALSE]
  ELSE [pumper |-> [p EXCEPT !.buffer = Val(result.value)],
        onRead |-> Some([value |-> Some(Val(result.value)), done |-> FALSE]),
        release |-> FALSE, again |-> TRUE]

\* A plausible slip in pump: the cancelled test is made after the done test,
\* so a cancelled pumper still reports the end of the stream.
PumpThenLateCancel(p, result) ==
  IF result.done
    THEN [pumper |-> [p EXCEPT !.done = TRUE],
          onRead |-> Some([value |-> null, done |-> TRUE]),
          release |-> FALSE, again |-> FALSE]
  ELSE IF p.cancelled
    THEN [pumper |-> p, onRead |-> null, release |-> TRUE, again |-> FALSE]
  ELSE LET q == PumperAppend(p, Val(result.value)) IN
       [pumper |-> q,
        onRead |-> Some([value |-> Some(q.buffer), done |-> FALSE]),
        release |-> FALSE, again |-> TRUE]

\* The callback pump() attaches to reader.read(): what becomes of the pumper,
\* the argument onRead is called with (null: not called), whether
\* reader.cancel() is called and whether pump(reader) is called again.
PumpThen(p, result) ==
  IF p.cancelled
    THEN [pumper |-> p, onRead |-> null, release |-> TRUE, again |-> FALSE]
  ELSE IF result.done
    THEN [pumper |-> [p EXCEPT !.done = TRUE],
          onRead |-> Some([value |-> null, done |-> TRUE]),
          release |-> FALSE, again |-> FALSE]
  ELSE LET q == PumperAppend(p, Val(result.value)) IN
       [pumper |-> q,
        onRead |-> Some([value |-> Some(q.buffer), done |-> FALSE]),
        release |-> FALSE, again |-> TRUE]

\* The reader of a stream (test/helpers/ReadableStream.js, res.body.getReader()):
\* the number of chunks it has handed out, whether it has reported the end, and
\* the calls made to reader.cancel.
NewReader == [reads |-> 0, ended |-> FALSE, cancelCalls |-> 0]

\* reader.read(): the outcomes it can have, each with the reader after it: the
\* end of the stream, or one more chunk among `chunks` while fewer than `limit`
\* were handed out. A stream that has ended keeps answering done.
ReaderRead(r, chunks, limit) ==
  {[result |-> [value |-> null, done |-> TRUE],
    reader |-> [r EXCEPT !.ended = TRUE]]}
  \cup
  (IF r.ended \/ r.reads >= limit THEN {}
   ELSE {[result |-> [value |-> Some(c), done |-> FALSE],
          reader |-> [r EXCEPT !.reads = r.reads + 1]] : c \in chunks})

\* reader.cancel()
ReaderCancel(r) == [r EXCEPT !.cancelCalls = r.cancelCalls + 1]

PInit ==
  /\ pumper = NewPumper
  /\ reader = NewReader
  /\ pumpRead = null
  /\ pumpCalled = FALSE
  /\ fed = <<>>
  /\ onReadArgs = <<>>
  /\ cancelledAt = null

\* pump(reader) issues reader.read(); the helper's iterator advances at the call.
IssueRead ==
  \E o \in ReaderRead(reader, Chunks, MaxChunks) :
    /\ pumpRead' = Some(o.result)
    /\ reader' = o.reader
    /\ fed' = IF o.result.done THEN fed ELSE Append(fed, Val(o.result.value))

\* const pumpPromise = pumper.pump(reader)
PPump ==
  /\ ~pumpCalled
  /\ pumpCalled' = TRUE
  /\ IssueRead
  /\ UNCHANGED <<pumper, onReadArgs, cancelledAt>>
  /\ UNCHANGED cvars

\* pumper.cancel()
PCancel ==
  /\ pumper' = PumperCancel(pumper)
  /\ cancelledAt' = IF cancelledAt = null THEN Some(Len(onReadArgs)) ELSE cancelledAt
  /\ UNCHANGED <<reader, pumpRead, pumpCalled, fed, onReadArgs>>
  /\ UNCHANGED cvars

\* The pending read resolves and pump's callback runs.
PReadThen ==
  /\ pumpRead # null
  /\ LET r == PumpThen(pumper, Val(pumpRead)) IN
       /\ pumper' = r.pumper
       /\ onReadArgs' = IF r.onRead = null THEN onReadArgs
                        ELSE Append(onReadArgs, Val(r.onRead))
       /\ IF r.again
            THEN IssueRead
            ELSE /\ pumpRead' = null
                 /\ reader' = IF r.release THEN ReaderCancel(reader) ELSE reader
                 /\ fed' = fed
  /\ UNCHANGED <<pumpCalled, cancelledAt>>
  /\ UNCHANGED cvars

\* ---------------------------------------------------------------- WebAudio
\* The controller and what it acts on are one record m while a handler runs:
\* the fields of `this` (audioBuffer .. _lastDecodePromise), the loads started
\* by loadSource, the decodes issued, and what the handler does to its
\* collaborators: calls (the calls made on sources, pumpers and callbacks, in
\* order), connected (sources connected to context.destination), staleEnded
\* ('ended' events queued for sources that were stopped with onended attached)
\* and threw (an exception left the handler).

Call(f, arg) == [f |-> f, arg |-> arg]
Log(m, f, arg) == [m EXCEPT !.calls = Append(@, Call(f, arg))]
Count(calls, f) == Cardinality({i \in DOMAIN calls : calls[i].f = f})

\* JavaScript's ToNumber of a field that is null or a number: null is 0.
Num(o) == IF o = null THEN 0 ELSE Val(o)

\* context.decodeAudioData(value): the decoder of the model yields one second of
\* audio per byte; the buffer remembers the decode that produced it.
DecodedAudio(value, id) == [duration |-> Len(value), decode |-> id]

\* context.createBufferSource() with its buffer set: never started, onended set.
NewSource(buffer) ==
  [buffer |-> buffer, started |-> FALSE, endAt |-> 0,
   onended |-> TRUE, ended |-> FALSE]

\* A plausible slip in currentTime: the duration ceiling is forgotten.
currentTimeUnclamped(m) ==
  IF m.audioSource = null \/ m.startTime = null THEN 0
  ELSE IF m.paused THEN Num(m.pauseTime) - Num(m.startTime)
  ELSE m.now - Num(m.startTime)

\* A plausible slip in currentTime: a paused track is measured to now, as a
\* playing one is.
currentTimeIgnoresPause(m) ==
  IF m.audioSource = null \/ m.startTime = null THEN 0
  ELSE Min(m.now - Num(m.startTime), Val(m.audioSource).buffer.duration)

\* WebAudio.currentTime
currentTime(m) ==
  IF m.audioSource = null \/ m.startTime = null THEN 0
  ELSE LET duration == Val(m.audioSource).buffer.duration IN
       IF m.paused
         THEN LET timeSincePause == Num(m.pauseTime) - Num(m.startTime) IN
              Min(timeSincePause, duration)
         ELSE LET timeSinceStart == m.now - Num(m.startTime) IN
              Min(timeSinceStart, duration)

\* WebAudio.buffered
buffered(m) ==
  IF m.audioSource = null THEN 0 ELSE Val(m.audioSource).buffer.duration

\* WebAudio._createAudioSource: m.ret is the value returned.
_createAudioSource(m) ==
  IF m.audioBuffer = null THEN [m EXCEPT !.ret = null]
  ELSE LET m1 == Log(m, "createBufferSource", 0)
           m2 == Log(m1, "connect", 0) IN
       [m2 EXCEPT !.ret = Some(NewSource(Val(m.audioBuffer))),
                  !.connected = @ + 1]

\* WebAudio._disposeAudioSource. stop() on a source that was started ends it, and
\* the browser then queues its 'ended' event if onended is still attached; stop()
\* on a source never started throws, which is caught.
_disposeAudioSource(m) ==
  IF m.audioSource # null
    THEN LET src == Val(m.audioSource)
             m1 == Log(m, "stop", 0)
             m2 == Log(m1, "disconnect", 0) IN
         [m2 EXCEPT !.staleEnded =
                      IF src.started /\ src.onended /\ ~src.ended THEN @ + 1 ELSE @,
                    !.connected = @ - 1,
                    !.audioSource = null]
    ELSE m

\* WebAudio._disposePumper
_disposePumper(m) ==
  IF m._pumper # null
    THEN LET m1 == Log(m, "cancel", Val(m._pumper)) IN
         [m1 EXCEPT !.loads[Val(m._pumper)].pumper = PumperCancel(@)]
    ELSE m

\* A plausible slip in _disposeAudioBuffer: the clock markers are left behind.
_disposeAudioBufferKeepsTimes(m) ==
  [m EXCEPT !.audioBuffer = null,
            !.loading = FALSE, !.paused = TRUE, !.buffering = FALSE]

\* WebAudio._disposeAudioBuffer
_disposeAudioBuffer(m) ==
  [m EXCEPT !.audioBuffer = null, !.startTime = null, !.pauseTime = null,
            !.loading = FALSE, !.paused = TRUE, !.buffering = FALSE]

\* A plausible slip in _playAudioBuffer: pauseTime is not cleared.
_playAudioBufferKeepsPauseTime(m) ==
  LET src == Val(m.audioSource)
      offset == currentTime(m)
      m1 == Log(m, "start", offset) IN
  IF src.started THEN [m1 EXCEPT !.threw = TRUE]
  ELSE LET m2 == [m1 EXCEPT !.audioSource =
                     Some([src EXCEPT !.started = TRUE,
                                      !.endAt = m.now + Max(0, src.buffer.duration - offset)])]
       IN [m2 EXCEPT !.startTime = Some(m2.now - currentTime(m2)),
                     !.paused = FALSE,
                     !.buffering = FALSE]

\* WebAudio._playAudioBuffer. start() on a source already started throws.
_playAudioBuffer(m) ==
  LET src == Val(m.audioSource)
      offset == currentTime(m)
      m1 == Log(m, "start", offset) IN
  IF src.started THEN [m1 EXCEPT !.threw = TRUE]
  ELSE LET m2 == [m1 EXCEPT !.audioSource =
                     Some([src EXCEPT !.started = TRUE,
                                      !.endAt = m.now + Max(0, src.buffer.duration - offset)])]
       IN [m2 EXCEPT !.startTime = Some(m2.now - currentTime(m2)),
                     !.pauseTime = null,
                     !.paused = FALSE,
                     !.buffering = FALSE]

\* A plausible slip in _updateAudioBuffer (the order of an earlier revision): the
\* new source is created and connected before the old one is disposed.
_updateAudioBufferCreateFirst(m, buffer) ==
  LET m1 == [m EXCEPT !.audioBuffer = Some(buffer)]
      m2 == _createAudioSource(m1)
      m3 == _disposeAudioSource(m2)
      m4 == [m3 EXCEPT !.audioSource = m2.ret] IN
  IF ~m4.paused \/ m4.buffering THEN _playAudioBuffer(m4) ELSE m4

\* A plausible slip in _updateAudioBuffer: the new source is started whatever
\* the state of the track.
_updateAudioBufferAlwaysPlays(m, buffer) ==
  LET m1 == [m EXCEPT !.audioBuffer = Some(buffer)]
      m2 == _disposeAudioSource(m1)
      m3 == _createAudioSource(m2)
      m4 == [m3 EXCEPT !.audioSource = m3.ret] IN
  _playAudioBuffer(m4)

\* WebAudio._updateAudioBuffer
_updateAudioBuffer(m, buffer) ==
  LET m1 == [m EXCEPT !.audioBuffer = Some(buffer)]
      m2 == _disposeAudioSource(m1)
      m3 == _createAudioSource(m2)
      m4 == [m3 EXCEPT !.audioSource = m3.ret] IN
  IF ~m4.paused \/ m4.buffering THEN _playAudioBuffer(m4) ELSE m4

\* WebAudio.play
play(m) ==
  IF m.audioSource = null
    THEN [m EXCEPT !.paused = FALSE, !.buffering = TRUE]
  ELSE IF ~m.paused THEN m
  ELSE LET m1 == _playAudioBuffer(m) IN
       IF m1.threw THEN m1 ELSE Log(m1, "onPlay", 0)

\* A plausible slip in pause: the started source is stopped and kept for the next
\* play() instead of being replaced.
pauseKeepsSource(m) ==
  IF m.audioSource = null
    THEN [m EXCEPT !.paused = TRUE, !.buffering = FALSE]
  ELSE IF m.paused THEN m
  ELSE LET m1 == [m EXCEPT !.paused = TRUE, !.pauseTime = Some(m.now)]
           m2 == [m1 EXCEPT !.audioSource = Some([Val(@) EXCEPT !.onended = FALSE])]
           m3 == Log(m2, "stop", 0) IN
       Log(m3, "onPause", 0)

\* A plausible slip in pause: the test for an already paused track is missing.
pauseUnguarded(m) ==
  IF m.audioSource = null
    THEN [m EXCEPT !.paused = TRUE, !.buffering = FALSE]
  ELSE LET m1 == [m EXCEPT !.paused = TRUE, !.pauseTime = Some(m.now)]
           m2 == [m1 EXCEPT !.audioSource = Some([Val(@) EXCEPT !.onended = FALSE])]
           m3 == _disposeAudioSource(m2)
           m4 == _createAudioSource(m3)
           m5 == [m4 EXCEPT !.audioSource = m4.ret] IN
       Log(m5, "onPause", 0)

\* A plausible slip in pause: the playing source is disposed but no new one is
\* built for a later play().
pauseNoRebuild(m) ==
  IF m.audioSource = null
    THEN [m EXCEPT !.paused = TRUE, !.buffering = FALSE]
  ELSE IF m.paused THEN m
  ELSE LET m1 == [m EXCEPT !.paused = TRUE, !.pauseTime = Some(m.now)]
           m2 == [m1 EXCEPT !.audioSource = Some([Val(@) EXCEPT !.onended = FALSE])]
           m3 == _disposeAudioSource(m2) IN
       Log(m3, "onPause", 0)

\* WebAudio.pause
pause(m) ==
  IF m.audioSource = null
    THEN [m EXCEPT !.paused = TRUE, !.buffering = FALSE]
  ELSE IF m.paused THEN m
  ELSE LET m1 == [m EXCEPT !.paused = TRUE, !.pauseTime = Some(m.now)]
           m2 == [m1 EXCEPT !.audioSource = Some([Val(@) EXCEPT !.onended = FALSE])]
           m3 == _disposeAudioSource(m2)
           m4 == _createAudioSource(m3)
           m5 == [m4 EXCEPT !.audioSource = m4.ret] IN
       Log(m5, "onPause", 0)

\* WebAudio.stop
stop(m) ==
  IF m.audioSource # null
    THEN Log(_disposeAudioBuffer(_disposePumper(_disposeAudioSource(m))), "onStop", 0)
    ELSE m

\* A plausible slip in _handleBufferEnded: buffering is set whether or not a load
\* is in progress.
_handleBufferEndedAlways(m) ==
  pause([m EXCEPT !.buffering = TRUE])

\* WebAudio._handleBufferEnded
_handleBufferEnded(m) ==
  pause(IF m.loading THEN [m EXCEPT !.buffering = TRUE] ELSE m)

\* The chunks a response body delivers: the controller never looks at the bytes,
\* so one byte value stands for all.
BodyChunks == {c \in Chunks : \A k \in DOMAIN c : c[k] = 1}

\* What one loadSource call owns: the fetch, then the Pumper, its reader, the
\* throttled handleDecode (lodash.throttle: called, whether its timer runs, the
\* arguments kept for the trailing edge), and the continuation handleDecode
\* attaches to _lastDecodePromise on done (waitOn) and whether it has run.
NewLoad ==
  [fetching |-> TRUE, pumper |-> NewPumper, reader |-> NewReader,
   reading |-> FALSE,
   throttle |-> [called |-> FALSE, timer |-> FALSE, args |-> null],
   waitOn |-> null, loaded |-> FALSE, failed |-> FALSE]

\* WebAudio._decodeAudioBuffer, up to the call of context.decodeAudioData: the
\* promise it returns is the decode's number, kept in m.ret.
_decodeAudioBuffer(m, i, value) ==
  LET id == Len(m.decodes) + 1 IN
  [m EXCEPT !.decodes = Append(@, [value |-> value, load |-> i, status |-> "pending"]),
            !.ret = Some(id)]

\* handleDecode (in loadSource), for load i. On done with no decode ever issued
\* _lastDecodePromise is undefined and .then throws a TypeError.
handleDecode(m, i, result) ==
  IF result.done
    THEN IF m._lastDecodePromise = null
           THEN [m EXCEPT !.threw = TRUE, !.loads[i].failed = TRUE]
           ELSE [m EXCEPT !.loads[i].waitOn = m._lastDecodePromise]
    ELSE LET m1 == _decodeAudioBuffer(m, i, Val(result.value)) IN
         [m1 EXCEPT !._lastDecodePromise = m1.ret]

\* throttle(handleDecode, throttleDecode) called with result: the outcomes. With
\* a wait of 0, and on the first call, func runs at once (leading edge). While
\* the timer runs the arguments are kept for the trailing edge, replacing those
\* kept before. Otherwise the call is on the leading edge if the wait has passed
\* since the last call, and kept (starting the timer) if not.
throttled(m, i, result) ==
  LET t == m.loads[i].throttle
      lead == handleDecode(
                [m EXCEPT !.loads[i].throttle =
                            [called |-> TRUE, timer |-> throttleDecode > 0, args |-> null]],
                i, result)
      keep == [m EXCEPT !.loads[i].throttle =
                          [called |-> TRUE, timer |-> TRUE, args |-> Some(result)]] IN
  IF throttleDecode = 0 \/ ~t.called THEN {lead}
  ELSE IF t.timer THEN {keep}
  ELSE {lead, keep}

\* The timer of the throttled handleDecode expires: the trailing edge runs func
\* with the arguments kept, if any.
timerExpired(m, i) ==
  LET t == m.loads[i].throttle
      m1 == [m EXCEPT !.loads[i].throttle.timer = FALSE,
                      !.loads[i].throttle.args = null] IN
  IF t.args = null THEN m1 ELSE handleDecode(m1, i, Val(t.args))

\* WebAudio.loadSource, up to the call of fetch.
loadSource(m) ==
  LET m1 == _disposePumper([m EXCEPT !.loading = TRUE]) IN
  [m1 EXCEPT !.loads = Append(@, NewLoad)]

\* The callback loadSource attaches to fetch(request), for load i: a new Pumper
\* with the throttled handleDecode as onRead, and pump(res.body.getReader()).
fetchThen(m, i) ==
  [m EXCEPT !._pumper = Some(i),
            !.loads[i].fetching = FALSE,
            !.loads[i].reading = TRUE]

\* A plausible slip in _decodeAudioBuffer: the minLoadDuration test is missing.
decodeThenNoMinimum(m, d) ==
  LET buffer == DecodedAudio(m.decodes[d].value, d)
      m1 == _updateAudioBuffer(m, buffer) IN
  IF m1.threw
    THEN [m1 EXCEPT !.decodes[d].status = "rejected"]
    ELSE [Log(m1, "onProgress", 0) EXCEPT !.decodes[d].status = "fulfilled"]

\* The callback _decodeAudioBuffer attaches to decodeAudioData, for decode d.
decodeThen(m, d) ==
  LET buffer == DecodedAudio(m.decodes[d].value, d) IN
  IF buffer.duration >= minLoadDuration
    THEN LET m1 == _updateAudioBuffer(m, buffer) IN
         IF m1.threw
           THEN [m1 EXCEPT !.decodes[d].status = "rejected"]
           ELSE [Log(m1, "onProgress", 0) EXCEPT !.decodes[d].status = "fulfilled"]
    ELSE [m EXCEPT !.decodes[d].status = "fulfilled"]

\* A plausible slip in _decodeAudioBuffer: a rejection handler that drops the
\* source whose data could not be extended.
decodeRejectedDisposes(m, d) ==
  _disposeAudioSource([m EXCEPT !.decodes[d].status = "rejected"])

\* decodeAudioData rejects for decode d: _decodeAudioBuffer attaches a
\* fulfilment callback only, so no code of the controller runs and the promise it
\* returned is rejected.
decodeRejected(m, d) ==
  [m EXCEPT !.decodes[d].status = "rejected"]

\* The continuation handleDecode attached on done, for load i.
loadedThen(m, i) ==
  Log([m EXCEPT !.loading = FALSE, !.loads[i].loaded = TRUE], "onLoad", 0)

\* The promise loadSource returns for load l: fetch(request).then of a callback
\* that returns pump(reader). It is pending while the fetch or a read is pending,
\* rejected when onRead threw inside pump's callback (handleDecode throws only
\* when done is the first call, which the throttle runs at once), and fulfilled
\* as soon as pump's chain of reads has ended.
loadSourceResult(l) ==
  IF l.fetching \/ l.reading THEN "pending"
  ELSE IF l.failed THEN "rejected"
  ELSE "fulfilled"

\* new WebAudio({context})
CInit ==
  /\ now = 0
  /\ audioBuffer = null
  /\ audioSource = null
  /\ startTime = null
  /\ pauseTime = null
  /\ loading = FALSE
  /\ paused = TRUE
  /\ buffering = FALSE
  /\ _pumper = null
  /\ _lastDecodePromise = null
  /\ loads = <<>>
  /\ decodes = <<>>
  /\ connected = 0
  /\ staleEnded = 0
  /\ last = [op |-> "new", calls |-> <<>>, threw |-> FALSE]

\* The state a handler starts from.
This ==
  [now |-> now, audioBuffer |-> audioBuffer, audioSource |-> audioSource,
   startTime |-> startTime, pauseTime |-> pauseTime, loading |-> loading,
   paused |-> paused, buffering |-> buffering, _pumper |-> _pumper,
   _lastDecodePromise |-> _lastDecodePromise, loads |-> loads,
   decodes |-> decodes, connected |-> connected, staleEnded |-> staleEnded,
   calls |-> <<>>, threw |-> FALSE, ret |-> null]

\* The state a handler leaves.
Commit(op, m) ==
  /\ m.staleEnded <= MaxStale
  /\ now' = m.now
  /\ audioBuffer' = m.audioBuffer
  /\ audioSource' = m.audioSource
  /\ startTime' = m.startTime
  /\ pauseTime' = m.pauseTime
  /\ loading' = m.loading
  /\ paused' = m.paused
  /\ buffering' = m.buffering
  /\ _pumper' = m._pumper
  /\ _lastDecodePromise' = m._lastDecodePromise
  /\ loads' = m.loads
  /\ decodes' = m.decodes
  /\ connected' = m.connected
  /\ staleEnded' = m.staleEnded
  /\ last' = [op |-> op, calls |-> m.calls, threw |-> m.threw]
  /\ UNCHANGED pvars

\* The context clock advances.
Tick ==
  /\ now < MaxTime
  /\ Commit("tick", [This EXCEPT !.now = now + 1])

LoadSource ==
  /\ Len(loads) < MaxLoads
  /\ Commit("loadSource", loadSource(This))

FetchThen(i) ==
  /\ loads[i].fetching
  /\ Commit("fetchThen", fetchThen(This, i))

\* The pending read of load i resolves and pump's callback runs; pump is called
\* again unless onRead threw.
ReadThen(i) ==
  /\ loads[i].reading
  /\ \E o \in ReaderRead(loads[i].reader, BodyChunks, MaxBodyChunks) :
       LET r == PumpThen(loads[i].pumper, o.result)
           m1 == [This EXCEPT
                    !.loads[i].pumper = r.pumper,
                    !.loads[i].reader = IF r.release THEN ReaderCancel(o.reader)
                                        ELSE o.reader,
                    !.loads[i].reading = r.again] IN
       IF r.onRead = null
         THEN Commit("readThen", m1)
         ELSE \E m2 \in throttled(m1, i, Val(r.onRead)) :
                Commit("readThen",
                       IF m2.threw THEN [m2 EXCEPT !.loads[i].reading = FALSE] ELSE m2)

TimerExpired(i) ==
  /\ loads[i].throttle.timer
  /\ Commit("timerExpired", timerExpired(This, i))

DecodeThen(d) ==
  /\ decodes[d].status = "pending"
  /\ Commit("decodeThen", decodeThen(This, d))

\* context.decodeAudioData fails for decode d.
DecodeFail(d) ==
  /\ decodes[d].status = "pending"
  /\ Commit("decodeFail", decodeRejected(This, d))

LoadedThen(i) ==
  /\ loads[i].waitOn # null
  /\ ~loads[i].loaded
  /\ decodes[Val(loads[i].waitOn)].status = "fulfilled"
  /\ Commit("loadedThen", loadedThen(This, i))

Play == Commit("play", play(This))

Pause == Commit("pause", pause(This))

Stop == Commit("stop", stop(This))

\* The current source reaches the end of its buffer; its 'ended' event runs
\* _handleBufferEnded.
SourceEnded ==
  /\ audioSource # null
  /\ LET src == Val(audioSource) IN
       /\ src.started /\ src.onended /\ ~src.ended
       /\ now >= src.endAt
       /\ Commit("sourceEnded",
                 _handleBufferEnded(
                   [This EXCEPT !.audioSource = Some([src EXCEPT !.ended = TRUE])]))

\* The 'ended' event of a source stopped by _disposeAudioSource with onended
\* still attached runs _handleBufferEnded.
StaleEnded ==
  /\ staleEnded > 0
  /\ Commit("staleEnded", _handleBufferEnded([This EXCEPT !.staleEnded = @ - 1]))

Next ==
  \/ Tick
  \/ LoadSource
  \/ \E i \in DOMAIN loads : FetchThen(i)
  \/ \E i \in DOMAIN loads : ReadThen(i)
  \/ \E i \in DOMAIN loads : TimerExpired(i)
  \/ \E d \in DOMAIN decodes : DecodeThen(d)
  \/ \E d \in DOMAIN decodes : DecodeFail(d)
  \/ \E i \in DOMAIN loads : LoadedThen(i)
  \/ Play
  \/ Pause
  \/ Stop
  \/ SourceEnded
  \/ StaleEnded

\* ---------------------------------------------------------- specifications
\* The controller.
Init == PInit /\ CInit
Spec == Init /\ [][Next]_vars

\* The controller with the continuation of a fulfilled promise run when due: the
\* event loop runs the callback handleDecode attached to _lastDecodePromise once
\* that promise is fulfilled.
SpecFair == Spec /\ WF_vars(\E i \in DOMAIN loads : LoadedThen(i))

\* The Pumper on its own, as test/Pumper.js drives it.
NextPumper == PPump \/ PCancel \/ PReadThen
SpecPumper == Init /\ [][NextPumper]_vars

\* loadSource called again, possibly while earlier loads are still running.
Reload ==
  /\ Len(loads) < MaxReloads
  /\ Commit("loadSource", loadSource(This))

\* Overlapping loads: loadSource calls interleaved with the completions of the
\* fetches, reads, throttle timers and decodes they start, with the context
\* clock standing still.
NextLoads ==
  \/ Reload
  \/ \E i \in DOMAIN loads : FetchThen(i)
  \/ \E i \in DOMAIN loads : ReadThen(i)
  \/ \E i \in DOMAIN loads : TimerExpired(i)
  \/ \E d \in DOMAIN decodes : DecodeThen(d)
SpecLoads == Init /\ [][NextLoads]_vars

\* loadSource called for the next track, when no load is running.
LoadNext ==
  /\ ~loading
  /\ Len(loads) < MaxReloads
  /\ Commit("loadSource", loadSource(This))

\* One track after another: loadSource when no load is running, play() and
\* stop(), and the callbacks and events these leave behind, with the context
\* clock standing still.
NextTracks ==
  \/ LoadNext
  \/ \E i \in DOMAIN loads : FetchThen(i)
  \/ \E i \in DOMAIN loads : ReadThen(i)
  \/ \E i \in DOMAIN loads : TimerExpired(i)
  \/ \E d \in DOMAIN decodes : DecodeThen(d)
  \/ Play
  \/ Stop
  \/ StaleEnded
SpecTracks == Init /\ [][NextTracks]_vars

\* ------------------------------------------------------------------ claims
RECURSIVE Flatten(_)
\* The concatenation of a sequence of chunks.
Flatten(chunks) ==
  IF chunks = <<>> THEN <<>>
  ELSE Flatten(SubSeq(chunks, 1, Len(chunks) - 1)) \o chunks[Len(chunks)]

IsPrefix(a, b) == Len(a) <= Len(b) /\ SubSeq(b, 1, Len(a)) = a

\* The onRead calls a never-cancelled pump makes for the chunks handed out so
\* far and, once the stream has reported its end, the done call.
ExpectedReads ==
  [k \in 1..Len(fed) |->
     [value |-> Some(Flatten(SubSeq(fed, 1, k))), done |-> FALSE]]
  \o (IF reader.ended THEN <<[value |-> null, done |-> TRUE]>> ELSE <<>>)

\* The data calls recorded so far.
DataReads == {k \in DOMAIN onReadArgs : ~onReadArgs[k].done}

\* C1 (as amended). A Pumper that is never cancelled calls onRead once per chunk,
\* in order, the k-th value being the concatenation of chunks 1..k and so an
\* append-extension of the previous one, strict when chunk k is not empty; when
\* the pump has ended, one call with done = true and value null follows and is
\* the last; for a stream of no chunks it is the only call.
C1_PumperOrdering ==
  cancelledAt = null =>
    /\ onReadArgs =
         SubSeq(ExpectedReads, 1,
                Len(ExpectedReads) - (IF pumpRead = null THEN 0 ELSE 1))
    /\ \A k \in DataReads : k > 1 =>
         /\ IsPrefix(Val(onReadArgs[k - 1].value), Val(onReadArgs[k].value))
         /\ fed[k] # <<>> =>
              Len(Val(onReadArgs[k].value)) > Len(Val(onReadArgs[k - 1].value))
    /\ (pumpCalled /\ pumpRead = null) =>
         /\ Len(onReadArgs) = Len(fed) + 1
         /\ onReadArgs[Len(onReadArgs)] = [value |-> null, done |-> TRUE]
         /\ DataReads = 1..Len(fed)

\* C1 witness: three chunks, not all empty, pumped to the end without a cancel.
C1_Witness ==
  /\ cancelledAt = null /\ pumper.done /\ pumpRead = null
  /\ Len(fed) = 3 /\ fed[1] # <<>> /\ fed[3] # <<>>
  /\ Len(onReadArgs) = 4

\* C1 as stated: every value is a strict append-extension of the previous one.
C1_StrictExtension ==
  cancelledAt = null =>
    \A k \in DataReads : k > 1 =>
      /\ IsPrefix(Val(onReadArgs[k - 1].value), Val(onReadArgs[k].value))
      /\ Len(Val(onReadArgs[k].value)) > Len(Val(onReadArgs[k - 1].value))

\* C2. Once cancel() has been called onRead is never called again; a read that
\* was pending then, or is issued by a later pump, ends with exactly one
\* reader.cancel() and no further read, whatever it returned; and cancel() on a
\* cancelled Pumper changes nothing.
C2_PumperCancellation ==
  cancelledAt # null =>
    /\ pumper.cancelled
    /\ Len(onReadArgs) = Val(cancelledAt)
    /\ reader.cancelCalls <= 1
    /\ reader.cancelCalls = 1 => pumpRead = null
    /\ (pumpCalled /\ pumpRead = null /\ ~pumper.done) => reader.cancelCalls = 1
    /\ pumper.done => reader.cancelCalls = 0
    /\ PumperCancel(pumper) = pumper

\* C2 witness: cancelled with a read pending after two chunks were reported, the
\* read resolved and the reader was released.
C2_Witness ==
  /\ cancelledAt = Some(2) /\ Len(fed) = 3
  /\ pumpRead = null /\ reader.cancelCalls = 1

\* A handler's result taken as the state the next handler starts from.
Then(m) == [m EXCEPT !.calls = <<>>, !.threw = FALSE, !.ret = null]

\* The calls named f in the last handler's log.
Fired(f) == Count(last.calls, f)

Playing == ~paused /\ audioSource # null /\ startTime # null

\* C3. stop() with a source stops and disconnects it, leaves every field at its
\* construction-time value and fires onStop once; a second stop() right after
\* it, and stop() with no source, fire nothing and change nothing.
C3_StopFinality ==
  LET m == stop(This) IN
  /\ audioSource # null =>
       /\ SubSeq(m.calls, 1, 2) = <<Call("stop", 0), Call("disconnect", 0)>>
       /\ m.connected = connected - 1
       /\ m.audioSource = null /\ m.audioBuffer = null
       /\ m.startTime = null /\ m.pauseTime = null
       /\ ~m.loading /\ m.paused /\ ~m.buffering
       /\ Count(m.calls, "onStop") = 1
       /\ stop(Then(m)) = Then(m)
  /\ audioSource = null => m = This
  /\ (last.op = "stop" /\ last.calls # <<>>) =>
       /\ audioSource = null /\ audioBuffer = null
       /\ startTime = null /\ pauseTime = null
       /\ ~loading /\ paused /\ ~buffering
       /\ Fired("onStop") = 1

\* C3 witness: stop() has just acted on a playing track whose load was running.
C3_Witness ==
  /\ last.op = "stop" /\ Fired("onStop") = 1 /\ Fired("cancel") = 1
  /\ audioSource = null /\ staleEnded = 1

\* C4. pause() twice in a row fires onPause at most once and the second call
\* changes nothing; play() while not paused with a source fires no onPlay,
\* starts nothing and changes nothing.
C4_IdempotentPausePlay ==
  /\ LET p1 == pause(This)
         p2 == pause(Then(p1)) IN
       /\ Count(p1.calls, "onPause") + Count(p2.calls, "onPause") <= 1
       /\ p2 = Then(p1)
  /\ (~paused /\ audioSource # null) => play(This) = This
  /\ (last.op = "pause" /\ paused) => pause(This) = This

\* C4 witness: pause() was called on a track already paused after playing.
C4_Witness ==
  /\ last.op = "pause" /\ last.calls = <<>>
  /\ paused /\ audioSource # null /\ pauseTime # null

\* The track position a resume at t2 yields, and the positions read later, for a
\* track playing since startTime that is paused now.
ResumeHolds(offsetOf(_, _, _)) ==
  Playing =>
    LET t0 == Val(startTime)
        t1 == now
        D == Val(audioSource).buffer.duration
        p == pause(This) IN
    \A t2 \in t1..MaxTime :
      LET r == play([Then(p) EXCEPT !.now = t2])
          offset == offsetOf(t0, t1, D) IN
      /\ r.calls = <<Call("start", Min(t1 - t0, D)), Call("onPlay", 0)>>
      /\ currentTime(Then(r)) = offset
      /\ \A t3 \in t2..(MaxTime + 1) :
           currentTime([Then(r) EXCEPT !.now = t3]) = Min(offset + (t3 - t2), D)

ClampedOffset(t0, t1, D) == Min(t1 - t0, D)
PlainOffset(t0, t1, D) == t1 - t0

\* C5 (as amended). With a source playing since t0, pause() at t1 then play() at
\* t2 >= t1 starts the source at min(t1 - t0, duration), currentTime() right
\* after the resume is that same value, not t2 - t0, and it then advances with
\* the clock up to the duration.
C5_PauseResumeRoundTrip == ResumeHolds(ClampedOffset)

\* C5 witness: play() has resumed a track at a positive offset, later than the
\* pause.
C5_Witness ==
  /\ last.op = "play" /\ last.calls = <<Call("start", 1), Call("onPlay", 0)>>
  /\ startTime = Some(2) /\ now = 3

\* C5 as stated: currentTime() right after the resume is t1 - t0.
C5_ResumeAtElapsed == ResumeHolds(PlainOffset)

\* C6. currentTime() is never above the duration of the current audioBuffer, is
\* 0 with no source or no startTime, and does not decrease over any step in
\* which the track keeps playing on the same buffer.
C6_ElapsedTimeBound ==
  /\ [](/\ currentTime(This) >= 0
        /\ audioBuffer = null => audioSource = null
        /\ audioSource # null => Val(audioSource).buffer = Val(audioBuffer)
        /\ audioBuffer # null => currentTime(This) <= Val(audioBuffer).duration
        /\ (audioSource = null \/ startTime = null) => currentTime(This) = 0)
  /\ [][(Playing /\ Playing' /\ audioBuffer' = audioBuffer)
          => currentTime(This)' >= currentTime(This)]_vars

\* C6 witness: the clock has run past the end of the buffer of a playing track.
C6_Witness ==
  /\ Playing /\ last.op = "tick"
  /\ now - Val(startTime) > Val(audioBuffer).duration

\* C7. A decode that completes below minLoadDuration changes nothing but the
\* state of its own promise and fires nothing; one at or above it installs its
\* buffer as audioBuffer and fires onProgress once.
C7_ShortBufferRejection ==
  \A d \in DOMAIN decodes : decodes[d].status = "pending" =>
    LET m == decodeThen(This, d)
        buffer == DecodedAudio(decodes[d].value, d) IN
    IF buffer.duration < minLoadDuration
      THEN m = [This EXCEPT !.decodes[d].status = "fulfilled"]
      ELSE /\ m.audioBuffer = Some(buffer)
           /\ Val(m.audioSource).buffer = buffer
           /\ Count(m.calls, "onProgress") = 1

\* C7 witness: a decode of too short a buffer has completed while a track was
\* installed and playing.
C7_Witness ==
  /\ last.op = "decodeThen" /\ last.calls = <<>>
  /\ Playing
  /\ \E d \in DOMAIN decodes :
       decodes[d].status = "fulfilled" /\ d # Val(audioBuffer).decode

\* C8. When the current source reaches the end of its buffer with loading true,
\* the handler leaves buffering and paused true and pauseTime = now, disposes
\* the source and installs an unstarted one on the same audioBuffer, and fires
\* onPause but not onStop; with loading false, buffering stays false.
C8_BufferingOnExhaustion ==
  (audioSource # null /\ Val(audioSource).started /\ ~Val(audioSource).ended
   /\ now >= Val(audioSource).endAt) =>
    LET src == Val(audioSource)
        m == _handleBufferEnded(
               [This EXCEPT !.audioSource = Some([src EXCEPT !.ended = TRUE])]) IN
    /\ m.paused /\ m.pauseTime = Some(now)
    /\ m.buffering = loading
    /\ m.calls = <<Call("stop", 0), Call("disconnect", 0),
                   Call("createBufferSource", 0), Call("connect", 0),
                   Call("onPause", 0)>>
    /\ m.audioSource = Some(NewSource(Val(audioBuffer)))
    /\ m.audioBuffer = audioBuffer
    /\ m.staleEnded = staleEnded
    /\ m.loading = loading /\ m.startTime = startTime

\* C8 witness: the source has just ended during a load.
C8_Witness ==
  /\ last.op = "sourceEnded" /\ loading /\ buffering /\ paused
  /\ pauseTime = Some(now) /\ ~Val(audioSource).started

RECURSIVE PeakConnected(_, _)
\* The most sources connected at once while the calls were made, starting from
\* n connected sources.
PeakConnected(n, calls) ==
  IF calls = <<>> THEN n
  ELSE LET n1 == CASE calls[1].f = "connect" -> n + 1
                   [] calls[1].f = "disconnect" -> n - 1
                   [] OTHER -> n IN
       Max(n, PeakConnected(n1, Tail(calls)))

\* C9. At most one source is connected to the output, during every handler as
\* well as after it: a source is connected exactly while audioSource refers to
\* it, and a handler that replaces the source disconnects the old one before it
\* creates and connects the new one.
C9_SingleConnectedSource ==
  /\ connected = (IF audioSource = null THEN 0 ELSE 1)
  /\ LET before == connected - Fired("connect") + Fired("disconnect") IN
       /\ before \in {0, 1}
       /\ PeakConnected(before, last.calls) <= 1

\* C9 witness: a decode has replaced the source of a playing track.
C9_Witness ==
  /\ last.op = "decodeThen"
  /\ last.calls = <<Call("stop", 0), Call("disconnect", 0),
                    Call("createBufferSource", 0), Call("connect", 0),
                    Call("start", 1), Call("onProgress", 0)>>

\* C10 as stated. Within one load, audioBuffer is never the result of a decode
\* issued before another one that has completed and was long enough to install.
C10_LastDecodeWins ==
  audioBuffer # null =>
    \A d \in DOMAIN decodes :
      ~ /\ d > Val(audioBuffer).decode
        /\ decodes[d].load = decodes[Val(audioBuffer).decode].load
        /\ decodes[d].status = "fulfilled"
        /\ Len(decodes[d].value) >= minLoadDuration

\* C11 as stated. A decode of a load whose Pumper has been cancelled, by stop()
\* or by a newer loadSource(), installs nothing when it completes: audioBuffer
\* and audioSource stay as they are and no source is created or started.
C11_SupersededDecodesIgnored ==
  \A d \in DOMAIN decodes :
    (decodes[d].status = "pending" /\ loads[decodes[d].load].pumper.cancelled) =>
      LET m == decodeThen(This, d) IN
      /\ m.audioBuffer = audioBuffer
      /\ m.audioSource = audioSource
      /\ m.calls = <<>>

\* The loads whose Pumper has a read pending and has not been cancelled.
Pumping == {i \in DOMAIN loads : loads[i].reading /\ ~loads[i].pumper.cancelled}

\* C12 as stated. At most one Pumper that is not cancelled is pumping, and once a
\* later loadSource has been called the Pumper of every earlier one, if it has
\* been created, is cancelled.
C12_SingleActiveLoad ==
  /\ Cardinality(Pumping) <= 1
  /\ \A i \in DOMAIN loads :
       (i < Len(loads) /\ ~loads[i].fetching) => loads[i].pumper.cancelled

\* C13 as stated. When the promise returned by loadSource is fulfilled after the
\* whole stream was pumped, the last decode issued has settled, loading is false
\* and onLoad has fired.
C13_LoadCompletionSignal ==
  \A i \in DOMAIN loads :
    (loadSourceResult(loads[i]) = "fulfilled" /\ loads[i].pumper.done) =>
      /\ loads[i].loaded
      /\ ~loading
      /\ \A d \in DOMAIN decodes :
           decodes[d].load = i => decodes[d].status # "pending"

\* C14 as stated. buffering = true only while loading = true.
C14_BufferingImpliesLoading == buffering => loading

\* C15. pauseTime is set only while paused is true, and every handler that takes
\* the track from paused to not paused (play() resuming it, a decode whose swap
\* starts the new source) leaves pauseTime unset.
C15_PauseTimeDiscipline ==
  /\ pauseTime # null => paused
  /\ LET r == play(This) IN ~r.paused => r.pauseTime = null
  /\ \A d \in DOMAIN decodes : decodes[d].status = "pending" =>
       LET m == decodeThen(This, d) IN ~m.paused => m.pauseTime = null
  /\ (last.op \in {"play", "decodeThen"} /\ Fired("start") = 1) =>
       ~paused /\ pauseTime = null

\* C15 witness: a decode has swapped the source of a track that was waiting for
\* data since its buffer ran out at time 1, and started it at time 2; the source
\* it replaced was not playing, so no 'ended' event is left behind.
C15_Witness ==
  /\ last.op = "decodeThen" /\ Fired("start") = 1 /\ Fired("stop") = 1
  /\ staleEnded = 0
  /\ now = 2 /\ startTime = Some(1) /\ Val(audioBuffer).duration = 2
  /\ ~paused /\ pauseTime = null

\* Load i has handled the end of its stream, one of its decodes other than the
\* last one issued has failed, the last one has succeeded, and the continuation
\* that ends the load has not run yet.
FailedBeforeLast(i) ==
  /\ i \in DOMAIN loads
  /\ loads[i].waitOn # null /\ ~loads[i].loaded
  /\ decodes[Val(loads[i].waitOn)].status = "fulfilled"
  /\ \E d \in DOMAIN decodes :
       /\ decodes[d].load = i /\ d # Val(loads[i].waitOn)
       /\ decodes[d].status = "rejected"

\* C16. A decode that fails changes none of audioBuffer, audioSource, startTime,
\* pauseTime, paused and buffering and fires nothing; the promise loadSource
\* returned is not rejected by it; and when the failed decode is not the last one
\* issued and the last one succeeds, the load finishes: the continuation runs,
\* sets loading = false and fires onLoad once.
C16_DecodeFailureAbsorbed ==
  /\ [][last'.op = "decodeFail" =>
          /\ UNCHANGED <<audioBuffer, audioSource, startTime, pauseTime, paused,
                         buffering, loading, connected, staleEnded>>
          /\ last'.calls = <<>>]_vars
  /\ [](\A d \in DOMAIN decodes :
          decodes[d].status = "rejected" =>
            loadSourceResult(loads[decodes[d].load]) # "rejected")
  /\ \A i \in 1..MaxLoads :
       FailedBeforeLast(i) ~>
         (last.op = "loadedThen" /\ loads[i].loaded /\ ~loading
          /\ Fired("onLoad") = 1)

\* C16 witness: the first of two decodes failed while the track played on; the
\* second succeeded and the load has finished.
C16_Witness ==
  /\ last.op = "loadedThen" /\ ~loading /\ Fired("onLoad") = 1
  /\ Len(decodes) = 2
  /\ decodes[1].status = "rejected" /\ decodes[2].status = "fulfilled"
  /\ audioBuffer = Some(DecodedAudio(decodes[2].value, 2))

\* C17 as stated. stop() called while a load is in progress, with or without a
\* source, cancels the active Pumper.
C17_StopCancelsLoad ==
  (loading /\ _pumper # null) =>
    stop(This).loads[Val(_pumper)].pumper.cancelled

\* The time the track has run by the controller's clock marks, before any
\* clamping to a buffer: from startTime to now while playing, to pauseTime while
\* paused, 0 when it never started.
Elapsed ==
  IF startTime = null THEN 0
  ELSE IF paused THEN Num(pauseTime) - Val(startTime)
  ELSE now - Val(startTime)

\* What installing the buffer of any pending decode that is long enough does to
\* the track, the position right after the swap being positionAfter(D) for a new
\* buffer of duration D.
SwapHolds(positionAfter(_)) ==
  \A d \in DOMAIN decodes :
    LET buffer == DecodedAudio(decodes[d].value, d) IN
    (decodes[d].status = "pending" /\ buffer.duration >= minLoadDuration) =>
      LET m == _updateAudioBuffer(This, buffer)
          after == currentTime(Then(m)) IN
      /\ m.audioBuffer = Some(buffer)
      /\ Val(m.audioSource).buffer = buffer
      /\ after = positionAfter(buffer.duration)
      /\ IF paused /\ ~buffering
           THEN /\ m.paused = paused /\ m.buffering = buffering
                /\ m.startTime = startTime /\ m.pauseTime = pauseTime
                /\ ~Val(m.audioSource).started
                /\ Count(m.calls, "start") = 0
           ELSE /\ m.calls[Len(m.calls)] = Call("start", after)
                /\ Count(m.calls, "start") = 1
                /\ Val(m.audioSource).started
                /\ m.startTime = Some(now - after)
                /\ ~m.paused /\ ~m.buffering /\ m.pauseTime = null

SamePosition(D) == currentTime(This)
ElapsedPosition(D) == Min(Elapsed, D)

C19_HandlerOnlyOnNaturalEnd ==
  (staleEnded > 0 /\ Playing) =>
    LET m == _handleBufferEnded([This EXCEPT !.staleEnded = @ - 1]) IN
    /\ ~m.paused /\ ~m.buffering
    /\ m.audioSource = audioSource
    /\ m.calls = <<>>

\* What can come between a play() and the completion of a decode without any
\* call of pause() or stop(): nothing, or the 'ended' event of a source that was
\* stopped before the play().
AfterPlay(p) ==
  {Then(p)} \cup
  (IF p.staleEnded > 0
     THEN {Then(_handleBufferEnded([Then(p) EXCEPT !.staleEnded = @ - 1]))}
     ELSE {})

\* C20 as stated. play() with no source sets paused = false and buffering = true,
\* starts nothing and fires nothing; with no pause() or stop() called after it,
\* the completion of the first decode long enough, of a load that was not
\* cancelled, starts its source at offset 0 and leaves paused = false,
\* buffering = false and startTime = now.
C20_PlayBeforeData ==
  audioSource = null =>
    LET p == play(This) IN
    /\ p = [This EXCEPT !.paused = FALSE, !.buffering = TRUE]
    /\ \A d \in DOMAIN decodes :
         (/\ decodes[d].status = "pending"
          /\ Len(decodes[d].value) >= minLoadDuration
          /\ ~loads[decodes[d].load].pumper.cancelled) =>
           \A e \in AfterPlay(p) :
             LET m == decodeThen(e, d) IN
             /\ Count(m.calls, "start") = 1
             /\ Val(m.audioSource).started
             /\ ~m.paused /\ ~m.buffering
             /\ m.startTime = Some(now)

\* C21. pause() while playing with a source sets paused = true and
\* pauseTime = now, stops and disconnects the playing source, creates exactly one
\* new source, unstarted and on the same unchanged audioBuffer, installs it as
\* audioSource and fires onPause once; pause() with no source sets paused = true
\* and buffering = false, creates no source and fires nothing.
C21_PauseRebuildsSource ==
  LET m == pause(This) IN
  /\ (audioSource # null /\ ~paused) =>
       /\ m.paused /\ m.pauseTime = Some(now)
       /\ m.calls = <<Call("stop", 0), Call("disconnect", 0),
                      Call("createBufferSource", 0), Call("connect", 0),
                      Call("onPause", 0)>>
       /\ m.audioBuffer = audioBuffer
       /\ m.audioSource = Some(NewSource(Val(audioBuffer)))
       /\ m.connected = connected
  /\ audioSource = null =>
       m = [This EXCEPT !.paused = TRUE, !.buffering = FALSE]
  /\ (last.op = "pause" /\ last.calls # <<>>) =>
       /\ paused /\ pauseTime = Some(now)
       /\ Fired("onPause") = 1 /\ Fired("createBufferSource") = 1
       /\ audioSource = Some(NewSource(Val(audioBuffer)))

\* C21 witness: pause() has just rebuilt the source of a track that had played
\* for a second.
C21_Witness ==
  /\ last.op = "pause" /\ Fired("onPause") = 1
  /\ paused /\ pauseTime = Some(now) /\ startTime # null
  /\ now - Val(startTime) = 1
  /\ ~Val(audioSource).started

\* C22 as stated, in the part every finishing load has to pass through. Once the
\* stream of a load has reported its end and the done notification has been
\* handed to handleDecode (the throttle holds nothing), the continuation that
\* sets loading = false and fires onLoad is waiting on the last decode issued, or
\* has run; this includes a stream that ends without delivering any chunk.
C22_LoadEventuallyFinishes ==
  \A i \in DOMAIN loads :
    (loads[i].pumper.done /\ loads[i].throttle.args = null) =>
      /\ ~loads[i].failed
      /\ loads[i].waitOn # null

\* What the controller's current source is to a start(): absent, fresh (created
\* and never started, stopped or disconnected) or started.
SourceState(m) ==
  IF m.audioSource = null THEN "none"
  ELSE IF Val(m.audioSource).started THEN "started" ELSE "fresh"

\* Every start() of a call log falls on a fresh source, walking the log from a
\* source in state s: createBufferSource yields a fresh source, start() starts
\* it, stop() and disconnect() dispose of it.
RECURSIVE StartsFresh(_, _)
StartsFresh(s, calls) ==
  IF calls = <<>> THEN TRUE
  ELSE LET f == calls[1].f IN
       CASE f = "createBufferSource" -> StartsFresh("fresh", Tail(calls))
         [] f = "start" -> s = "fresh" /\ StartsFresh("started", Tail(calls))
         [] f \in {"stop", "disconnect"} -> StartsFresh("disposed", Tail(calls))
         [] OTHER -> StartsFresh(s, Tail(calls))

\* C23. Whenever paused is true the current source, if any, has never been
\* started; every handler that starts a source (play(), a decode completion)
\* calls start() at most once, on a source that is fresh at that point, never
\* started before and not stopped or disconnected, and start() never throws.
C23_PausedSilentSingleUse ==
  /\ (paused /\ audioSource # null) => ~Val(audioSource).started
  /\ LET m == play(This) IN
       /\ StartsFresh(SourceState(This), m.calls)
       /\ Count(m.calls, "start") <= 1 /\ ~m.threw
  /\ \A d \in DOMAIN decodes :
       decodes[d].status = "pending" =>
         LET m == decodeThen(This, d) IN
         /\ StartsFresh(SourceState(This), m.calls)
         /\ Count(m.calls, "start") <= 1 /\ ~m.threw
  /\ LET p == pause(This)
         m == play(Then(p)) IN
       /\ StartsFresh(SourceState(This), p.calls \o m.calls)
       /\ ~m.threw
  /\ Fired("start") <= 1
  /\ Fired("start") = 1 =>
       /\ ~last.threw
       /\ ~paused /\ audioSource # null /\ Val(audioSource).started

\* C23 witness: play() has just resumed a track paused at position 1, starting
\* the source that pause() built.
C23_Witness ==
  /\ last.op = "play" /\ last.calls = <<Call("start", 1), Call("onPlay", 0)>>
  /\ ~paused /\ Val(audioSource).started

\* C24 as stated. Once the caller has invoked pause(), paused stays true and no
\* source is started by whatever follows short of play(): a decode completion, a
\* source-ended event; this includes pause() called in the buffering state that
\* follows buffer exhaustion.
C24_CallerPauseHolds ==
  LET p == Then(pause(This)) IN
  /\ p.paused
  /\ \A d \in DOMAIN decodes :
       decodes[d].status = "pending" =>
         LET m == decodeThen(p, d) IN
         m.paused /\ Count(m.calls, "start") = 0
  /\ p.staleEnded > 0 =>
       LET m == _handleBufferEnded([p EXCEPT !.staleEnded = @ - 1]) IN
       m.paused /\ Count(m.calls, "start") = 0

====
